---- MODULE Spec2Model ----
(***************************************************************************)
(* A model of the workout application: the CSV plan importer               *)
(* (workouts/importers.py), the tables it writes (workouts/models.py) and  *)
(* the admin action that calls it (workouts/admin.py) and the page on      *)
(* which a user logs a workout (workouts/views.py).                        *)
(*                                                                         *)
(* A Python str is modelled as a sequence of one-character strings, so     *)
(* that strip(), split("-") and int() are computed character by character. *)
(***************************************************************************)
EXTENDS Integers, Sequences, FiniteSets, TLC

VARIABLES
    value,            \* SpecParse: the raw Sets cell handed to _parse_sets
    parsed,           \* SpecParse: what _parse_sets returned or raised, NotCalled before
    exercises,        \* committed rows of table Exercise
    items,            \* committed rows of table WorkoutPlanItem
    nextExerciseId,   \* the auto-increment sequence of Exercise.id
    nextItemId,       \* the auto-increment sequence of WorkoutPlanItem.id
    upload,           \* the CSV file the administrator uploads
    runs,             \* history: one record per finished call of the importer
    txn,              \* SpecConc: per concurrent import, its position and uncommitted writes
    commits,          \* SpecConc: history, the imports in the order they committed
    plans,            \* rows of table WorkoutPlan (their ids)
    logs,             \* rows of table WorkoutLog
    setlogs,          \* rows of table SetLog
    nextLogId,        \* the auto-increment sequence of WorkoutLog.id
    nextSetLogId,     \* the auto-increment sequence of SetLog.id
    posts             \* history: one record per finished POST to today_workout

\* the variables only today_workout writes
logVars == <<logs, setlogs, nextLogId, nextSetLogId, posts>>

vars == <<value, parsed, exercises, items, nextExerciseId, nextItemId, upload, runs,
          txn, commits, plans, logs, setlogs, nextLogId, nextSetLogId, posts>>

(***************************************************************************)
(* Bounds of the model.                                                    *)
(***************************************************************************)
MaxLen == 3       \* longest raw Sets cell explored by SpecParse
MaxRows == 3      \* most data rows in an uploaded file
MaxImports == 2   \* most importer calls in one behaviour
MaxPosts == 2     \* most POSTs to today_workout in one behaviour

(***************************************************************************)
(* Python str helpers.                                                     *)
(***************************************************************************)
Space == " "
Hyphen == "-"
Digits == {"0", "1", "2", "3", "4", "5", "6", "7", "8", "9"}

DigitVal(c) ==
    CASE c = "0" -> 0 [] c = "1" -> 1 [] c = "2" -> 2 [] c = "3" -> 3
      [] c = "4" -> 4 [] c = "5" -> 5 [] c = "6" -> 6 [] c = "7" -> 7
      [] c = "8" -> 8 [] c = "9" -> 9

RECURSIVE lstrip(_)
lstrip(s) == IF s # <<>> /\ Head(s) = Space THEN lstrip(Tail(s)) ELSE s

RECURSIVE rstrip(_)
rstrip(s) ==
    IF s # <<>> /\ s[Len(s)] = Space THEN rstrip(SubSeq(s, 1, Len(s) - 1)) ELSE s

\* str.strip()
strip(s) == rstrip(lstrip(s))

\* sep in s
Contains(s, c) == \E i \in 1..Len(s) : s[i] = c

\* s.split(sep) for a one-character separator: always at least one part
RECURSIVE split(_, _)
split(s, sep) ==
    IF ~Contains(s, sep) THEN <<s>>
    ELSE LET i == CHOOSE k \in 1..Len(s) :
                     s[k] = sep /\ \A j \in 1..(k - 1) : s[j] # sep
         IN <<SubSeq(s, 1, i - 1)>> \o split(SubSeq(s, i + 1, Len(s)), sep)

RECURSIVE DecimalValue(_)
DecimalValue(ds) ==
    IF ds = <<>> THEN 0
    ELSE 10 * DecimalValue(SubSeq(ds, 1, Len(ds) - 1)) + DigitVal(ds[Len(ds)])

\* int(s): surrounding whitespace is ignored, one leading "-" is a sign, the
\* rest must be one or more decimal digits; anything else raises ValueError.
PyInt(s) ==
    LET t == strip(s)
        neg == t # <<>> /\ Head(t) = Hyphen
        ds == IF neg THEN Tail(t) ELSE t
        ok == ds # <<>> /\ \A i \in 1..Len(ds) : ds[i] \in Digits
    IN IF ok
       THEN [raised |-> FALSE, val |-> IF neg THEN 0 - DecimalValue(ds) ELSE DecimalValue(ds),
             error |-> <<>>]
       ELSE [raised |-> TRUE, val |-> 0,
             error |-> <<"ValueError", "invalid literal for int() with base 10", s>>]

\* max(nums) of a non-empty list
MaxOf(nums) == CHOOSE m \in {nums[i] : i \in 1..Len(nums)} :
                   \A i \in 1..Len(nums) : nums[i] <= m

SelectSeqNonEmpty(parts) == SelectSeq(parts, LAMBDA p : p # <<>>)

(***************************************************************************)
(* _parse_sets(value): importers.py                                        *)
(***************************************************************************)
\* the parser returning the first token of a range
ParseSetsFirst(raw) ==
    LET s == strip(raw)
        parts == SelectSeqNonEmpty([i \in 1..Len(split(s, Hyphen)) |-> strip(split(s, Hyphen)[i])])
        ints == [i \in 1..Len(parts) |-> PyInt(parts[i])]
        bad == {i \in 1..Len(parts) : ints[i].raised}
    IN IF s = <<>> THEN [raised |-> FALSE, val |-> 1, error |-> <<>>]
       ELSE IF Contains(s, Hyphen)
       THEN IF bad # {}
            THEN ints[CHOOSE i \in bad : \A j \in bad : i <= j]
            ELSE [raised |-> FALSE,
                  val |-> IF parts # <<>> THEN ints[1].val ELSE 1,
                  error |-> <<>>]
       ELSE PyInt(s)

_parse_sets(raw) ==
    LET s == strip(raw)
        parts == SelectSeqNonEmpty([i \in 1..Len(split(s, Hyphen)) |-> strip(split(s, Hyphen)[i])])
        ints == [i \in 1..Len(parts) |-> PyInt(parts[i])]
        bad == {i \in 1..Len(parts) : ints[i].raised}
    IN IF s = <<>> THEN [raised |-> FALSE, val |-> 1, error |-> <<>>]
       ELSE IF Contains(s, Hyphen)
       THEN IF bad # {}
            THEN ints[CHOOSE i \in bad : \A j \in bad : i <= j]
            ELSE [raised |-> FALSE,
                  val |-> IF parts # <<>> THEN MaxOf([i \in 1..Len(parts) |-> ints[i].val]) ELSE 1,
                  error |-> <<>>]
       ELSE PyInt(s)

(***************************************************************************)
(* SpecParse: _parse_sets applied to every short cell over SetsAlphabet.   *)
(***************************************************************************)
SetsAlphabet == {"0", "1", "2", "3", Hyphen, "x", Space}

Strings(n) == UNION {[1..k -> SetsAlphabet] : k \in 0..n}

NotCalled == [raised |-> FALSE, val |-> -1, error |-> <<"not called">>]

IdleDb ==
    /\ exercises = {}
    /\ items = {}
    /\ nextExerciseId = 1
    /\ nextItemId = 1
    /\ upload = <<>>
    /\ runs = <<>>
    /\ txn = <<>>
    /\ commits = <<>>
    /\ plans = {}
    /\ logs = {}
    /\ setlogs = {}
    /\ nextLogId = 1
    /\ nextSetLogId = 1
    /\ posts = <<>>

InitParse ==
    /\ value \in Strings(MaxLen)
    /\ parsed = NotCalled
    /\ IdleDb

ParseSets ==
    /\ parsed = NotCalled
    /\ parsed' = _parse_sets(value)
    /\ UNCHANGED <<logVars, plans, value, exercises, items, nextExerciseId, nextItemId, upload, runs,
                   txn, commits>>

NextParse == ParseSets

SpecParse == InitParse /\ [][NextParse]_vars

(***************************************************************************)
(* The uploaded file as csv.DictReader presents it: the header's column    *)
(* names and, per data row, a dict from column name to cell.               *)
(***************************************************************************)
Required == {"Exercise", "Sets", "Reps_or_Time", "Rest_Seconds", "YouTube_URL"}

\* The code points of the column names, which is what sorted() compares.
CodePoints(name) ==
    CASE name = "Exercise" -> <<69, 120, 101, 114, 99, 105, 115, 101>>
      [] name = "Sets" -> <<83, 101, 116, 115>>
      [] name = "Reps_or_Time" -> <<82, 101, 112, 115, 95, 111, 114, 95, 84, 105, 109, 101>>
      [] name = "Rest_Seconds" -> <<82, 101, 115, 116, 95, 83, 101, 99, 111, 110, 100, 115>>
      [] name = "YouTube_URL" -> <<89, 111, 117, 84, 117, 98, 101, 95, 85, 82, 76>>

\* a < b for Python str: lexicographic on code points, a proper prefix first
RECURSIVE SeqLess(_, _)
SeqLess(a, b) ==
    IF b = <<>> THEN FALSE
    ELSE IF a = <<>> THEN TRUE
    ELSE IF Head(a) # Head(b) THEN Head(a) < Head(b)
    ELSE SeqLess(Tail(a), Tail(b))

StrLess(a, b) == SeqLess(CodePoints(a), CodePoints(b))

\* sorted(names)
RECURSIVE sorted(_)
sorted(names) ==
    IF names = {} THEN <<>>
    ELSE LET m == CHOOSE x \in names : \A y \in names \ {x} : StrLess(x, y)
         IN <<m>> \o sorted(names \ {m})

\* sep.join(parts), kept as the list of its pieces
RECURSIVE join(_, _)
join(parts, sep) ==
    IF Len(parts) <= 1 THEN parts
    ELSE <<Head(parts), sep>> \o join(Tail(parts), sep)

\* (row.get(column) or "").strip()
Cell(row, column) == strip(IF column \in DOMAIN row THEN row[column] ELSE <<>>)

(***************************************************************************)
(* The tables (workouts/models.py) and the storage rules the importer      *)
(* relies on.  A transaction works on a record st of the tables; the id    *)
(* sequences are not transactional.                                        *)
(***************************************************************************)
Plans == {1, 2}

Tables == [exercises |-> exercises, items |-> items,
           nextExerciseId |-> nextExerciseId, nextItemId |-> nextItemId,
           plans |-> plans, logs |-> logs, setlogs |-> setlogs]

NoError == <<>>

\* PositiveSmallIntegerField: the column's CHECK (value >= 0) and its 16-bit range
MaxSmallInt == 32767
PositiveSmallIntegerField(n) == 0 <= n /\ n <= MaxSmallInt

\* WorkoutPlanItem.Meta.unique_together: (plan, order) is held by one of rows
no_unique_together(rows, plan, order) == FALSE

unique_together(rows, plan, order) ==
    \E it \in rows : it.plan = plan /\ it.order = order

\* Exercise.objects.get_or_create(name=name, defaults={"youtube_url": url})
get_or_create(st, name, url) ==
    LET found == {e \in st.exercises : e.name = name}
        new == [id |-> st.nextExerciseId, name |-> name, youtube_url |-> url]
    IN IF found # {}
       THEN [st |-> st, exercise |-> CHOOSE e \in found : TRUE, created |-> FALSE]
       ELSE [st |-> [st EXCEPT !.exercises = @ \cup {new}, !.nextExerciseId = @ + 1],
             exercise |-> new, created |-> TRUE]

\* exercise.youtube_url = url; exercise.save(update_fields=["youtube_url"])
save_youtube_url(st, exercise, url) ==
    [st EXCEPT !.exercises = (@ \ {exercise}) \cup {[exercise EXCEPT !.youtube_url = url]}]

delete_nothing(st, plan) == st

\* a delete without the filter on the plan
delete_every_plan(st, plan) == [st EXCEPT !.items = {}]

\* WorkoutPlanItem.objects.filter(plan=plan).delete()
delete_items(st, plan) ==
    [st EXCEPT !.items = {it \in @ : it.plan # plan}]

\* WorkoutPlanItem.objects.create(...): the row is refused when a column
\* check fails or (plan, order) is taken.
create_item(st, plan, exercise, order, sets, reps, rest) ==
    LET new == [id |-> st.nextItemId, plan |-> plan, exercise |-> exercise.id,
                order |-> order, prescribed_sets |-> sets, prescribed_reps |-> reps,
                rest_seconds |-> rest]
        st1 == [st EXCEPT !.nextItemId = @ + 1]
    IN IF ~(PositiveSmallIntegerField(order) /\ PositiveSmallIntegerField(sets)
              /\ PositiveSmallIntegerField(rest))
       THEN [raised |-> TRUE, error |-> <<"IntegrityError", "CHECK constraint failed">>, st |-> st1]
       ELSE IF unique_together(st.items, plan, order)
       THEN [raised |-> TRUE, error |-> <<"IntegrityError", "UNIQUE constraint failed", "plan", "order">>,
             st |-> st1]
       ELSE [raised |-> FALSE, error |-> NoError, st |-> [st1 EXCEPT !.items = @ \cup {new}]]

(***************************************************************************)
(* import_plan_items_from_csv(plan, csv_file): importers.py                *)
(***************************************************************************)
ImportResult(ce, ue, ci) ==
    [created_exercises |-> ce, updated_exercises |-> ue, created_items |-> ci]

\* What the loop carries from row to row.  log is a history of the loop: the
\* working tables and counters as each row's iteration left them.
LoopStart(st) ==
    [st |-> st, order |-> 1, result |-> ImportResult(0, 0, 0), row |-> 0,
     raised |-> FALSE, error |-> NoError, log |-> <<>>]

\* the upsert without the comparison with the stored URL
UpsertAnyUrl(acc, name, youtube_url) ==
    LET g == get_or_create(acc.st, name, youtube_url)
    IN IF g.created
       THEN [st |-> g.st, exercise |-> g.exercise,
             result |-> [acc.result EXCEPT !.created_exercises = @ + 1]]
       ELSE IF youtube_url # <<>>
       THEN [st |-> save_youtube_url(g.st, g.exercise, youtube_url),
             exercise |-> [g.exercise EXCEPT !.youtube_url = youtube_url],
             result |-> [acc.result EXCEPT !.updated_exercises = @ + 1]]
       ELSE [st |-> g.st, exercise |-> g.exercise, result |-> acc.result]

\* the upsert without the test for an empty incoming URL
UpsertEmptyUrl(acc, name, youtube_url) ==
    LET g == get_or_create(acc.st, name, youtube_url)
    IN IF g.created
       THEN [st |-> g.st, exercise |-> g.exercise,
             result |-> [acc.result EXCEPT !.created_exercises = @ + 1]]
       ELSE IF g.exercise.youtube_url # youtube_url
       THEN [st |-> save_youtube_url(g.st, g.exercise, youtube_url),
             exercise |-> [g.exercise EXCEPT !.youtube_url = youtube_url],
             result |-> [acc.result EXCEPT !.updated_exercises = @ + 1]]
       ELSE [st |-> g.st, exercise |-> g.exercise, result |-> acc.result]

\* the upsert counting a created exercise that has a URL as an update too
UpsertCountingBoth(acc, name, youtube_url) ==
    LET g == get_or_create(acc.st, name, youtube_url)
    IN IF g.created
       THEN [st |-> g.st, exercise |-> g.exercise,
             result |-> [acc.result EXCEPT
                           !.created_exercises = @ + 1,
                           !.updated_exercises = IF youtube_url # <<>> THEN @ + 1 ELSE @]]
       ELSE IF youtube_url # <<>> /\ g.exercise.youtube_url # youtube_url
       THEN [st |-> save_youtube_url(g.st, g.exercise, youtube_url),
             exercise |-> [g.exercise EXCEPT !.youtube_url = youtube_url],
             result |-> [acc.result EXCEPT !.updated_exercises = @ + 1]]
       ELSE [st |-> g.st, exercise |-> g.exercise, result |-> acc.result]

\* The upsert of one row's exercise (get_or_create and the URL update).
UpsertExercise(acc, name, youtube_url) ==
    LET g == get_or_create(acc.st, name, youtube_url)
    IN IF g.created
       THEN [st |-> g.st, exercise |-> g.exercise,
             result |-> [acc.result EXCEPT !.created_exercises = @ + 1]]
       ELSE IF youtube_url # <<>> /\ g.exercise.youtube_url # youtube_url
       THEN [st |-> save_youtube_url(g.st, g.exercise, youtube_url),
             exercise |-> [g.exercise EXCEPT !.youtube_url = youtube_url],
             result |-> [acc.result EXCEPT !.updated_exercises = @ + 1]]
       ELSE [st |-> g.st, exercise |-> g.exercise, result |-> acc.result]

\* the body with the column's default of 60 for an empty Rest_Seconds
RowBodyColumnDefault(acc, plan, row) ==
    LET name == Cell(row, "Exercise")
        youtube_url == Cell(row, "YouTube_URL")
        reps_or_time == Cell(row, "Reps_or_Time")
        rest_seconds_raw == Cell(row, "Rest_Seconds")
        sets_raw == Cell(row, "Sets")
        prescribed_sets == _parse_sets(sets_raw)
        rest_seconds == IF rest_seconds_raw # <<>> THEN PyInt(rest_seconds_raw)
                        ELSE [raised |-> FALSE, val |-> 60, error |-> NoError]
        up == UpsertExercise(acc, name, youtube_url)
        c == create_item(up.st, plan, up.exercise, acc.order, prescribed_sets.val,
                         IF reps_or_time # <<>> THEN reps_or_time ELSE <<"1", "0">>,
                         rest_seconds.val)
        here == [acc EXCEPT !.row = @ + 1]
    IN IF name = <<>> THEN here
       ELSE IF prescribed_sets.raised
       THEN [here EXCEPT !.raised = TRUE, !.error = prescribed_sets.error]
       ELSE IF rest_seconds.raised
       THEN [here EXCEPT !.raised = TRUE, !.error = rest_seconds.error]
       ELSE IF c.raised
       THEN [here EXCEPT !.raised = TRUE, !.error = c.error, !.st = c.st,
                         !.result = up.result]
       ELSE [here EXCEPT !.st = c.st, !.order = @ + 1,
                         !.result = [up.result EXCEPT !.created_items = @ + 1]]

\* The body of "for row in reader" for one row.
RowBody(acc, plan, row) ==
    LET name == Cell(row, "Exercise")
        youtube_url == Cell(row, "YouTube_URL")
        reps_or_time == Cell(row, "Reps_or_Time")
        rest_seconds_raw == Cell(row, "Rest_Seconds")
        sets_raw == Cell(row, "Sets")
        prescribed_sets == _parse_sets(sets_raw)
        rest_seconds == IF rest_seconds_raw # <<>> THEN PyInt(rest_seconds_raw)
                        ELSE [raised |-> FALSE, val |-> 0, error |-> NoError]
        up == UpsertExercise(acc, name, youtube_url)
        c == create_item(up.st, plan, up.exercise, acc.order, prescribed_sets.val,
                         IF reps_or_time # <<>> THEN reps_or_time ELSE <<"1", "0">>,
                         rest_seconds.val)
        here == [acc EXCEPT !.row = @ + 1]
    IN IF name = <<>> THEN here
       ELSE IF prescribed_sets.raised
       THEN [here EXCEPT !.raised = TRUE, !.error = prescribed_sets.error]
       ELSE IF rest_seconds.raised
       THEN [here EXCEPT !.raised = TRUE, !.error = rest_seconds.error]
       ELSE IF c.raised
       THEN [here EXCEPT !.raised = TRUE, !.error = c.error, !.st = c.st,
                         !.result = up.result]
       ELSE [here EXCEPT !.st = c.st, !.order = @ + 1,
                         !.result = [up.result EXCEPT !.created_items = @ + 1]]

\* an iteration in which a skipped row takes an order number too
ProcessRowCountingBlank(acc, plan, row) ==
    CHOOSE logged \in
        {[out EXCEPT !.order = IF Cell(row, "Exercise") = <<>> THEN @ + 1 ELSE @,
                     !.log = Append(@, [st |-> out.st, result |-> out.result,
                                         order |-> out.order, raised |-> out.raised])] :
            out \in {RowBody(acc, plan, row)}} : TRUE

\* One iteration of the loop, recorded in the log.
ProcessRow(acc, plan, row) ==
    CHOOSE logged \in
        {[out EXCEPT !.log = Append(@, [st |-> out.st, result |-> out.result,
                                         order |-> out.order, raised |-> out.raised])] :
            out \in {RowBody(acc, plan, row)}} : TRUE

RECURSIVE ImportRows(_, _, _)
ImportRows(acc, plan, rows) ==
    IF rows = <<>> \/ acc.raised THEN acc
    ELSE CHOOSE end \in {ImportRows(nxt, plan, Tail(rows)) :
                            nxt \in {ProcessRow(acc, plan, Head(rows))}} : TRUE

\* a delete that no reference protects
never_protected(st, plan) == FALSE

\* SetLog.plan_item is on_delete=PROTECT: the delete of a plan's items is
\* refused, before any row is deleted, when a SetLog references one of them
protected(st, plan) ==
    \E s \in st.setlogs : \E it \in st.items : it.plan = plan /\ s.plan_item = it.id

\* the body with the delete placed before the header check
ImportBodyDeleteFirst(st, plan, file) ==
    IF ~(Required \subseteq file.header)
    THEN [LoopStart(delete_items(st, plan)) EXCEPT
            !.raised = TRUE,
            !.error = <<"ValueError", "Missing required CSV columns: ">>
                        \o join(sorted(Required \ file.header), ", ")]
    ELSE ImportRows(LoopStart(delete_items(st, plan)), plan, file.rows)

\* The function body, run on the transaction's working copy of the tables.
ImportBody(st, plan, file) ==
    IF ~(Required \subseteq file.header)
    THEN [LoopStart(st) EXCEPT
            !.raised = TRUE,
            !.error = <<"ValueError", "Missing required CSV columns: ">>
                        \o join(sorted(Required \ file.header), ", ")]
    ELSE IF protected(st, plan)
    THEN [LoopStart(st) EXCEPT
            !.raised = TRUE,
            !.error = <<"ProtectedError", "Cannot delete some instances of model 'WorkoutPlanItem'">>]
    ELSE ImportRows(LoopStart(delete_items(st, plan)), plan, file.rows)

\* no rollback of the plan items
atomic_keeps_items(st, run) ==
    IF run.raised THEN [run.st EXCEPT !.exercises = st.exercises] ELSE run.st

\* no rollback of the catalog
atomic_keeps_exercises(st, run) ==
    IF run.raised THEN [run.st EXCEPT !.items = st.items] ELSE run.st

\* @transaction.atomic: an exception leaving the function rolls the tables
\* back to what they were on entry; the id sequences keep their values.
atomic(st, run) ==
    IF run.raised
    THEN [st EXCEPT !.nextExerciseId = run.st.nextExerciseId,
                    !.nextItemId = run.st.nextItemId]
    ELSE run.st

\* WorkoutPlanItem.plan is a ForeignKey to WorkoutPlan.  Django declares its
\* foreign keys deferred, so an item of a plan that has no row is refused
\* when the transaction commits, on leaving the function.
check_plan_fk(run) ==
    IF ~run.raised /\ \E it \in run.st.items : it.plan \notin run.st.plans
    THEN [run EXCEPT !.raised = TRUE,
                     !.error = <<"IntegrityError", "FOREIGN KEY constraint failed">>]
    ELSE run

import_plan_items_from_csv(st, plan, file) ==
    CHOOSE outcome \in
        {[raised |-> run.raised, error |-> run.error, result |-> run.result,
          row |-> run.row, work |-> run.st, log |-> run.log, st |-> atomic(st, run)] :
            run \in {check_plan_fk(ImportBody(st, plan, file))}} : TRUE

(***************************************************************************)
(* Spec: the administrator uploads one file and runs the import action on  *)
(* it, up to MaxImports times, against tables that the admin site has      *)
(* already filled.                                                         *)
(***************************************************************************)
Row(name, sets, reps, rest, url) ==
    [Exercise |-> name, Sets |-> sets, Reps_or_Time |-> reps,
     Rest_Seconds |-> rest, YouTube_URL |-> url]

NameCells == {<<"A">>, <<"B", " ">>}
UrlCells == {<<>>, <<"u">>, <<" ", "v">>}

\* rows that differ in exercise and video URL
CatalogRows ==
    {Row(n, <<>>, <<>>, <<>>, u) : n \in NameCells, u \in UrlCells}
      \ {Row(<<"B", " ">>, <<>>, <<>>, <<>>, <<"u">>)}

\* a separator row: blank Exercise, the other cells unparsable
BlankRows == {Row(<<" ">>, <<"x">>, <<>>, <<"x">>, <<"u">>)}

\* rows that differ in the prescription cells
PrescriptionRows ==
    {Row(<<"A">>, <<"2", "-", "1">>, <<"8", " ">>, <<"9", "0">>, <<>>),
     Row(<<"A">>, <<"0">>, <<>>, <<>>, <<>>),
     Row(<<"A">>, <<"x">>, <<>>, <<>>, <<>>),
     Row(<<"A">>, <<>>, <<>>, <<"x">>, <<>>),
     Row(<<"A">>, <<>>, <<>>, <<"-", "5">>, <<>>)}

Rows == CatalogRows \cup BlankRows \cup PrescriptionRows

RowSeqs(n) == UNION {[1..k -> Rows] : k \in 0..n}

\* a data row of a file whose header lacks columns has only the header's cells
Restrict(row, header) == [c \in header |-> row[c]]

Files ==
    {[header |-> Required, rows |-> rs] : rs \in RowSeqs(MaxRows)}
      \cup {[header |-> h, rows |-> rs] :
              h \in (SUBSET Required) \ {Required}, rs \in {<<>>}}
      \cup {[header |-> h, rows |-> <<Restrict(Row(<<"A">>, <<"x">>, <<>>, <<>>, <<"u">>), h)>>] :
              h \in (SUBSET Required) \ {Required}}

\* Tables as the admin site (ExerciseAdmin, WorkoutPlanItemInline) can have
\* left them before an import.
Seeds ==
    {[exercises |-> {}, items |-> {}, nextExerciseId |-> 1, nextItemId |-> 1],
     [exercises |-> {[id |-> 1, name |-> <<"A">>, youtube_url |-> <<"u">>]},
      items |-> {[id |-> 1, plan |-> 1, exercise |-> 1, order |-> 2, prescribed_sets |-> 3,
                  prescribed_reps |-> <<"1", "0">>, rest_seconds |-> 60],
                 [id |-> 2, plan |-> 1, exercise |-> 1, order |-> 5, prescribed_sets |-> 2,
                  prescribed_reps |-> <<"A", "M", "R", "A", "P">>, rest_seconds |-> 0],
                 [id |-> 3, plan |-> 2, exercise |-> 1, order |-> 1, prescribed_sets |-> 3,
                  prescribed_reps |-> <<"1", "0">>, rest_seconds |-> 60]},
      nextExerciseId |-> 2, nextItemId |-> 4]}

\* nobody has logged a workout
NoLogs ==
    /\ logs = {}
    /\ setlogs = {}
    /\ nextLogId = 1
    /\ nextSetLogId = 1
    /\ posts = <<>>

Init ==
    /\ value = <<>>
    /\ parsed = NotCalled
    /\ \E seed \in Seeds :
        /\ exercises = seed.exercises
        /\ items = seed.items
        /\ nextExerciseId = seed.nextExerciseId
        /\ nextItemId = seed.nextItemId
    /\ upload \in Files
    /\ runs = <<>>
    /\ txn = <<>>
    /\ commits = <<>>
    /\ plans = Plans
    /\ NoLogs

\* WorkoutPlanAdmin.import_items_from_csv on the selected plan: the importer
\* runs and its outcome is reported; an exception is caught and shown.
Import(plan) ==
    /\ Len(runs) < MaxImports
    /\ \E r \in {import_plan_items_from_csv(Tables, plan, upload)} :
          /\ exercises' = r.st.exercises
          /\ items' = r.st.items
          /\ nextExerciseId' = r.st.nextExerciseId
          /\ nextItemId' = r.st.nextItemId
          /\ plans' = r.st.plans
          /\ logs' = r.st.logs
          /\ setlogs' = r.st.setlogs
          /\ runs' = Append(runs, [plan |-> plan, file |-> upload, raised |-> r.raised,
                                   error |-> r.error, result |-> r.result, row |-> r.row,
                                   log |-> r.log, before |-> Tables, work |-> r.work, after |-> r.st])
    /\ UNCHANGED <<nextLogId, nextSetLogId, posts, value, parsed, upload, txn, commits>>

Next == \E plan \in Plans : Import(plan)

Spec == Init /\ [][Next]_vars

(***************************************************************************)
(* SpecRef: the importer is called with a WorkoutPlan instance whose row   *)
(* is gone (the plan was deleted after it had been loaded; its items went  *)
(* with it, on_delete=CASCADE).                                            *)
(***************************************************************************)
StalePlans == {3}

NextRef == \E plan \in StalePlans : Import(plan)

SpecRef == Init /\ [][NextRef]_vars

(***************************************************************************)
(* SpecConc: two administrators run the import action at the same time, on *)
(* the same plan or on two plans.  The importer takes no lock of its own,  *)
(* so its database statements interleave.  Storage rules: a statement      *)
(* reads the committed rows and the transaction's own uncommitted writes   *)
(* (READ COMMITTED); a row written by an open transaction is locked until  *)
(* that transaction ends; a unique index makes an insert wait for an open  *)
(* transaction that holds the same key and refuses it once that key is     *)
(* committed.  The first import targets TargetPlan.                        *)
(***************************************************************************)
Importers == {1, 2}
TargetPlan == 1

NoExercise == [id |-> 0, name |-> <<>>, youtube_url |-> <<>>]

ConcFiles ==
    {[header |-> Required, rows |-> rs] :
        rs \in {<<>>,
                <<Row(<<"A">>, <<>>, <<>>, <<>>, <<"u">>)>>,
                <<Row(<<"A">>, <<>>, <<>>, <<>>, <<>>), Row(<<"B", " ">>, <<>>, <<>>, <<>>, <<"u">>)>>,
                <<Row(<<"B", " ">>, <<>>, <<>>, <<>>, <<>>), Row(<<"A">>, <<"2", "-", "1">>, <<>>, <<>>, <<" ", "v">>)>>,
                <<Row(<<" ">>, <<"x">>, <<>>, <<"x">>, <<"u">>), Row(<<"A">>, <<"x">>, <<>>, <<>>, <<>>)>>}}
      \cup {[header |-> Required \ {"Sets"}, rows |-> <<>>]}

ConcSeeds == Seeds

IdleTxn(plan, file) ==
    [pc |-> "begin", plan |-> plan, file |-> file, k |-> 1, order |-> 1, result |-> ImportResult(0, 0, 0),
     exercise |-> NoExercise, collected |-> {}, deleted |-> {}, inserted |-> {},
     written |-> {}, outcome |-> "running", error |-> NoError, lost |-> {}]

InitConc ==
    /\ value = <<>>
    /\ parsed = NotCalled
    /\ upload = <<>>
    /\ runs = <<>>
    /\ \E seed \in ConcSeeds :
        /\ exercises = seed.exercises
        /\ items = seed.items
        /\ nextExerciseId = seed.nextExerciseId
        /\ nextItemId = seed.nextItemId
    /\ txn \in {calls \in [Importers -> {IdleTxn(p, f) : p \in Plans, f \in ConcFiles}] :
                    calls[1].plan = TargetPlan}
    /\ commits = <<>>
    /\ plans = Plans
    /\ NoLogs

Others(t) == Importers \ {t}
Ids(rows) == {r.id : r \in rows}

\* what transaction t reads: the committed rows under its own writes
VisibleExercises(t) ==
    {e \in exercises : e.id \notin Ids(txn[t].written)} \cup txn[t].written
VisibleItems(t) ==
    {it \in items : it.id \notin txn[t].deleted} \cup txn[t].inserted

\* the exception leaves the function: @transaction.atomic rolls back
Raise(t, err) ==
    [txn EXCEPT ![t] = [@ EXCEPT !.pc = "done", !.outcome = "raised", !.error = err,
                                 !.collected = {}, !.deleted = {}, !.inserted = {},
                                 !.written = {}]]

Goto(t, label) == [txn EXCEPT ![t].pc = label]

CurrentRow(t) == txn[t].file.rows[txn[t].k]

\* lines 39-52, first half of the delete: the header check, then the ORM
\* reads the plan's items it is going to delete.
Collect(t) ==
    /\ txn[t].pc = "begin"
    /\ IF ~(Required \subseteq txn[t].file.header)
       THEN txn' = Raise(t, <<"ValueError", "Missing required CSV columns: ">>
                               \o join(sorted(Required \ txn[t].file.header), ", "))
       ELSE IF \E s \in setlogs : \E it \in VisibleItems(t) :
                    it.plan = txn[t].plan /\ s.plan_item = it.id
       THEN txn' = Raise(t, <<"ProtectedError",
                              "Cannot delete some instances of model 'WorkoutPlanItem'">>)
       ELSE txn' = [txn EXCEPT ![t].pc = "delete",
                               ![t].collected = Ids({it \in VisibleItems(t) : it.plan = txn[t].plan})]
    /\ UNCHANGED <<logVars, plans, value, parsed, exercises, items, nextExerciseId, nextItemId, upload, runs,
                   commits>>

\* a row another open transaction has deleted is locked
DeleteWaitsFor(t, u) == txn[t].pc = "delete" /\ txn[t].collected \cap txn[u].deleted # {}

\* line 52, second half: the collected rows that still exist are deleted
DeleteCollected(t) ==
    /\ txn[t].pc = "delete"
    /\ \A u \in Others(t) : ~DeleteWaitsFor(t, u)
    /\ txn' = [txn EXCEPT ![t].pc = "loop",
                          ![t].deleted = txn[t].collected \cap Ids(items)]
    /\ UNCHANGED <<logVars, plans, value, parsed, exercises, items, nextExerciseId, nextItemId, upload, runs,
                   commits>>

NeedsUpdate(exercise, youtube_url) ==
    youtube_url # <<>> /\ exercise.youtube_url # youtube_url

\* lines 55-68: the next row is read and parsed; a blank row is skipped, an
\* unparsable one raises; otherwise get_or_create looks the exercise up.
LoopRow(t) ==
    /\ txn[t].pc = "loop"
    /\ txn[t].k <= Len(txn[t].file.rows)
    /\ LET row == CurrentRow(t)
           name == Cell(row, "Exercise")
           youtube_url == Cell(row, "YouTube_URL")
           rest_seconds_raw == Cell(row, "Rest_Seconds")
           prescribed_sets == _parse_sets(Cell(row, "Sets"))
           found == {e \in VisibleExercises(t) : e.name = name}
       IN txn' =
            IF name = <<>> THEN [txn EXCEPT ![t].k = @ + 1]
            ELSE IF prescribed_sets.raised THEN Raise(t, prescribed_sets.error)
            ELSE IF rest_seconds_raw # <<>> /\ PyInt(rest_seconds_raw).raised
            THEN Raise(t, PyInt(rest_seconds_raw).error)
            ELSE IF found = {} THEN Goto(t, "insert_exercise")
            ELSE LET e == CHOOSE e \in found : TRUE
                 IN [txn EXCEPT ![t].exercise = e,
                                ![t].pc = IF NeedsUpdate(e, youtube_url)
                                          THEN "update" ELSE "create_item"]
    /\ UNCHANGED <<logVars, plans, value, parsed, exercises, items, nextExerciseId, nextItemId, upload, runs,
                   commits>>

\* an insert that never waits for an open transaction's key
InsertNeverWaits(t, u) == FALSE

\* the unique index on Exercise.name: another open transaction has inserted
\* the same name
InsertWaitsFor(t, u) ==
    /\ txn[t].pc = "insert_exercise"
    /\ \E e \in txn[u].written :
          e.name = Cell(CurrentRow(t), "Exercise") /\ e.id \notin Ids(exercises)

\* lines 68-73, get_or_create's create: the insert, or, when the name has
\* been committed meanwhile, the IntegrityError it catches and the second
\* lookup.  lost is a history of the names whose insert was refused.
InsertExercise(t) ==
    /\ txn[t].pc = "insert_exercise"
    /\ \A u \in Others(t) : ~InsertWaitsFor(t, u)
    /\ LET name == Cell(CurrentRow(t), "Exercise")
           youtube_url == Cell(CurrentRow(t), "YouTube_URL")
           taken == {e \in VisibleExercises(t) : e.name = name}
           new == [id |-> nextExerciseId, name |-> name, youtube_url |-> youtube_url]
       IN IF taken # {}
          THEN /\ txn' = [txn EXCEPT
                            ![t].exercise = CHOOSE e \in taken : TRUE,
                            ![t].lost = @ \cup {name},
                            ![t].pc = IF NeedsUpdate(CHOOSE e \in taken : TRUE, youtube_url)
                                      THEN "update" ELSE "create_item"]
               /\ UNCHANGED <<exercises, nextExerciseId>>
          ELSE /\ txn' = [txn EXCEPT ![t].exercise = new,
                                     ![t].written = @ \cup {new},
                                     ![t].result.created_exercises = @ + 1,
                                     ![t].pc = "create_item"]
               /\ nextExerciseId' = nextExerciseId + 1
               /\ UNCHANGED exercises
    /\ UNCHANGED <<logVars, plans, value, parsed, items, nextItemId, upload, runs, commits>>

\* the row another open transaction has written is locked
UpdateWaitsFor(t, u) ==
    txn[t].pc = "update" /\ txn[t].exercise.id \in Ids(txn[u].written)

\* lines 76-79: the changed video URL is saved
UpdateUrl(t) ==
    /\ txn[t].pc = "update"
    /\ \A u \in Others(t) : ~UpdateWaitsFor(t, u)
    /\ LET e == [txn[t].exercise EXCEPT !.youtube_url = Cell(CurrentRow(t), "YouTube_URL")]
       IN txn' = [txn EXCEPT ![t].exercise = e,
                             ![t].written = {w \in @ : w.id # e.id} \cup {e},
                             ![t].result.updated_exercises = @ + 1,
                             ![t].pc = "create_item"]
    /\ UNCHANGED <<logVars, plans, value, parsed, exercises, items, nextExerciseId, nextItemId, upload, runs,
                   commits>>

\* the unique index on (plan, order): another open transaction has inserted
\* the same pair, or has deleted the committed row that holds it
CreateWaitsFor(t, u) ==
    /\ txn[t].pc = "create_item"
    /\ unique_together(txn[u].inserted \cup {it \in items : it.id \in txn[u].deleted},
                       txn[t].plan, txn[t].order)

\* lines 81-90: the plan item is inserted
CreateItem(t) ==
    /\ txn[t].pc = "create_item"
    /\ \A u \in Others(t) : ~CreateWaitsFor(t, u)
    /\ LET row == CurrentRow(t)
           reps_or_time == Cell(row, "Reps_or_Time")
           rest_seconds_raw == Cell(row, "Rest_Seconds")
           new == [id |-> nextItemId, plan |-> txn[t].plan, exercise |-> txn[t].exercise.id,
                   order |-> txn[t].order,
                   prescribed_sets |-> _parse_sets(Cell(row, "Sets")).val,
                   prescribed_reps |-> IF reps_or_time # <<>> THEN reps_or_time ELSE <<"1", "0">>,
                   rest_seconds |-> IF rest_seconds_raw # <<>> THEN PyInt(rest_seconds_raw).val ELSE 0]
       IN txn' =
            IF ~(PositiveSmallIntegerField(new.order) /\ PositiveSmallIntegerField(new.prescribed_sets)
                   /\ PositiveSmallIntegerField(new.rest_seconds))
            THEN Raise(t, <<"IntegrityError", "CHECK constraint failed">>)
            ELSE IF unique_together(VisibleItems(t), new.plan, new.order)
            THEN Raise(t, <<"IntegrityError", "UNIQUE constraint failed", "plan", "order">>)
            ELSE [txn EXCEPT ![t].inserted = @ \cup {new},
                             ![t].result.created_items = @ + 1,
                             ![t].order = @ + 1,
                             ![t].k = @ + 1,
                             ![t].pc = "loop"]
    /\ nextItemId' = nextItemId + 1
    /\ UNCHANGED <<logVars, plans, value, parsed, exercises, items, nextExerciseId, upload, runs, commits>>

\* lines 92-96: the loop is over, the function returns and
\* @transaction.atomic commits
Commit(t) ==
    /\ txn[t].pc = "loop"
    /\ txn[t].k > Len(txn[t].file.rows)
    /\ exercises' = VisibleExercises(t)
    /\ items' = VisibleItems(t)
    /\ txn' = [txn EXCEPT ![t] = [@ EXCEPT !.pc = "done", !.outcome = "committed",
                                           !.collected = {}, !.deleted = {},
                                           !.inserted = {}, !.written = {}]]
    /\ commits' = Append(commits, t)
    /\ UNCHANGED <<logVars, plans, value, parsed, nextExerciseId, nextItemId, upload, runs>>

WaitsFor(t, u) ==
    DeleteWaitsFor(t, u) \/ InsertWaitsFor(t, u) \/ UpdateWaitsFor(t, u) \/ CreateWaitsFor(t, u)

\* two transactions wait for each other: the storage ends one of them with
\* an error, which leaves the function and rolls it back
Deadlock(t) ==
    /\ \E u \in Others(t) : WaitsFor(t, u) /\ WaitsFor(u, t)
    /\ txn' = Raise(t, <<"OperationalError", "deadlock detected">>)
    /\ UNCHANGED <<logVars, plans, value, parsed, exercises, items, nextExerciseId, nextItemId, upload, runs,
                   commits>>

NextConc ==
    \E t \in Importers :
        \/ Collect(t)
        \/ DeleteCollected(t)
        \/ LoopRow(t)
        \/ InsertExercise(t)
        \/ UpdateUrl(t)
        \/ CreateItem(t)
        \/ Commit(t)
        \/ Deadlock(t)

SpecConc == InitConc /\ [][NextConc]_vars

(***************************************************************************)
(* today_workout(request): views.py.  The view runs outside a transaction, *)
(* so each of its statements is stored as it is executed.  db is the       *)
(* record of the tables it reads and writes.                               *)
(***************************************************************************)
Users == {1, 2}

\* no WorkoutPlan has today's date
NoPlan == 0

ViewTables == [items |-> items, logs |-> logs, setlogs |-> setlogs,
               nextLogId |-> nextLogId, nextSetLogId |-> nextSetLogId]

\* WorkoutPlanItem.objects.filter(plan=plan), in Meta.ordering
RECURSIVE OrderedItems(_)
OrderedItems(its) ==
    IF its = {} THEN <<>>
    ELSE LET first == CHOOSE it \in its : \A other \in its : it.order <= other.order
         IN <<first>> \o OrderedItems(its \ {first})

\* for item in items: for set_num in range(1, item.prescribed_sets + 1)
RECURSIVE FormKeys(_)
FormKeys(its) ==
    IF its = <<>> THEN <<>>
    ELSE [n \in 1..Head(its).prescribed_sets |-> <<Head(its).id, n>>] \o FormKeys(Tail(its))

\* the fields reps_<item>_<set> and comment_<item>_<set> of the form;
\* request.POST.get(key) or "" for a field the form does not have
PostGet(entries, key) ==
    IF key \in DOMAIN entries THEN entries[key] ELSE [reps |-> <<>>, comment |-> <<>>]

\* SetLog.objects.create(...): refused when a column check fails or
\* (log, plan_item, set_number) is taken
create_setlog(db, log, key, reps_done, comment) ==
    LET new == [id |-> db.nextSetLogId, log |-> log, plan_item |-> key[1],
                set_number |-> key[2], reps_done |-> reps_done, comment |-> comment]
        db1 == [db EXCEPT !.nextSetLogId = @ + 1]
    IN IF ~(PositiveSmallIntegerField(key[2]) /\ PositiveSmallIntegerField(reps_done))
       THEN [raised |-> TRUE, error |-> <<"IntegrityError", "CHECK constraint failed">>, db |-> db1]
       ELSE IF \E s \in db.setlogs :
                  s.log = log /\ s.plan_item = key[1] /\ s.set_number = key[2]
       THEN [raised |-> TRUE,
             error |-> <<"IntegrityError", "UNIQUE constraint failed", "log", "plan_item", "set_number">>,
             db |-> db1]
       ELSE [raised |-> FALSE, error |-> NoError, db |-> [db1 EXCEPT !.setlogs = @ \cup {new}]]

\* lines 42-73: the loop over the plan's items and their sets, for the
\* entries still to read; it ends at the first reps value int() refuses
\* (redirect) and at a create the storage refuses (the exception escapes).
RECURSIVE SaveSets(_, _, _, _)
SaveSets(acc, log, keys, entries) ==
    IF keys = <<>> \/ acc.outcome # "saved" THEN acc
    ELSE LET reps_raw == strip(PostGet(entries, Head(keys)).reps)
             comment_raw == strip(PostGet(entries, Head(keys)).comment)
             reps_done == PyInt(reps_raw)
             c == create_setlog(acc.db, log, Head(keys), reps_done.val, comment_raw)
         IN IF reps_raw = <<>> THEN SaveSets(acc, log, Tail(keys), entries)
            ELSE IF reps_done.raised
            THEN [acc EXCEPT !.outcome = "invalid", !.error = reps_done.error]
            ELSE IF c.raised
            THEN [acc EXCEPT !.outcome = "error", !.error = c.error, !.db = c.db]
            ELSE SaveSets([acc EXCEPT !.db = c.db], log, Tail(keys), entries)

\* a delete that leaves the previous set logs in place
keep_setlogs(db, log) == db

\* line 39: SetLog.objects.filter(log=log).delete()
delete_setlogs(db, log) == [db EXCEPT !.setlogs = {s \in @ : s.log # log}]

\* the POST branch of today_workout for the user, when the plan dated today
\* is `today`
today_workout(db, user, today, form) ==
    LET found == {l \in db.logs : l.user = user /\ l.plan = today}
        created == [id |-> db.nextLogId, user |-> user, plan |-> today, general_comment |-> <<>>]
        log == IF found # {} THEN CHOOSE l \in found : TRUE ELSE created
        db1 == IF found # {} THEN db
               ELSE [db EXCEPT !.logs = @ \cup {created}, !.nextLogId = @ + 1]
        db2 == [db1 EXCEPT !.logs = (@ \ {log})
                              \cup {[log EXCEPT !.general_comment = strip(form.general_comment)]}]
        db3 == delete_setlogs(db2, log.id)
        keys == FormKeys(OrderedItems({it \in db.items : it.plan = today}))
    IN IF today = NoPlan
       THEN [db |-> db, outcome |-> "no plan", error |-> NoError]
       ELSE SaveSets([db |-> db3, outcome |-> "saved", error |-> NoError], log.id, keys,
                     form.entries)

(***************************************************************************)
(* SpecLog: users post the form of today's plan, up to MaxPosts times, and *)
(* the administrator imports a file, in any order.                         *)
(***************************************************************************)
CommentCells == {<<>>, <<"g", " ">>}

EntryCells ==
    {[reps |-> <<>>, comment |-> <<"c">>],
     [reps |-> <<" ", "7">>, comment |-> <<" ", "c">>],
     [reps |-> <<"x">>, comment |-> <<>>],
     [reps |-> <<"-", "1">>, comment |-> <<>>]}

\* the fields the page shows for the plan
PageKeys(today) ==
    LET keys == FormKeys(OrderedItems({it \in items : it.plan = today}))
    IN {keys[k] : k \in 1..Len(keys)}

\* fields the page does not show: one set more than prescribed, and the
\* items of other plans
ExtraKeys(today) ==
    UNION {{<<it.id, n>> : n \in 1..(it.prescribed_sets + 1)} : it \in items} \ PageKeys(today)

ExtraEntry == [reps |-> <<"9">>, comment |-> <<>>]

Forms(today) ==
    IF today = NoPlan THEN {[general_comment |-> <<>>, entries |-> <<>>]}
    ELSE {[general_comment |-> g,
           entries |-> [k \in PageKeys(today) \cup ExtraKeys(today) |->
                           IF k \in PageKeys(today) THEN e[k] ELSE ExtraEntry]] :
             g \in CommentCells, e \in [PageKeys(today) -> EntryCells]}

LogFiles ==
    {[header |-> Required, rows |-> <<Row(<<"A">>, <<"2", "-", "1">>, <<>>, <<>>, <<>>)>>],
     [header |-> Required \ {"Sets"}, rows |-> <<>>]}

LogSeed ==
    [exercises |-> {[id |-> 1, name |-> <<"A">>, youtube_url |-> <<"u">>]},
     items |-> {[id |-> 1, plan |-> 1, exercise |-> 1, order |-> 1, prescribed_sets |-> 2,
                 prescribed_reps |-> <<"1", "0">>, rest_seconds |-> 60],
                [id |-> 2, plan |-> 2, exercise |-> 1, order |-> 1, prescribed_sets |-> 1,
                 prescribed_reps |-> <<"1", "0">>, rest_seconds |-> 60]},
     nextExerciseId |-> 2, nextItemId |-> 3]

InitLog ==
    /\ value = <<>>
    /\ parsed = NotCalled
    /\ exercises = LogSeed.exercises
    /\ items = LogSeed.items
    /\ nextExerciseId = LogSeed.nextExerciseId
    /\ nextItemId = LogSeed.nextItemId
    /\ upload \in LogFiles
    /\ runs = <<>>
    /\ txn = <<>>
    /\ commits = <<>>
    /\ plans = Plans
    /\ NoLogs

\* one POST to today_workout by a logged-in user
Submit(user, today) ==
    /\ Len(posts) < MaxPosts
    /\ \E form \in Forms(today) :
          \E r \in {today_workout(ViewTables, user, today, form)} :
              /\ logs' = r.db.logs
              /\ setlogs' = r.db.setlogs
              /\ nextLogId' = r.db.nextLogId
              /\ nextSetLogId' = r.db.nextSetLogId
              /\ posts' = Append(posts, [user |-> user, plan |-> today, form |-> form,
                                         outcome |-> r.outcome, error |-> r.error,
                                         before |-> ViewTables, after |-> r.db])
    /\ UNCHANGED <<value, parsed, exercises, items, nextExerciseId, nextItemId, upload, runs,
                   txn, commits, plans>>

NextLog ==
    \/ \E user \in Users : \E today \in Plans \cup {NoPlan} : Submit(user, today)
    \/ \E plan \in Plans : Import(plan)

SpecLog == InitLog /\ [][NextLog]_vars

(***************************************************************************)
(* The set-count rule, stated on the positions of the cell instead of by   *)
(* splitting it: a token is a maximal hyphen-free stretch of the trimmed   *)
(* cell.                                                                   *)
(***************************************************************************)
TokenSpans(s) ==
    {sp \in (1..(Len(s) + 1)) \X (0..Len(s)) :
        /\ sp[1] <= sp[2] + 1
        /\ \A k \in sp[1]..sp[2] : s[k] # Hyphen
        /\ sp[1] = 1 \/ s[sp[1] - 1] = Hyphen
        /\ sp[2] = Len(s) \/ s[sp[2] + 1] = Hyphen}

Token(s, sp) == strip(SubSeq(s, sp[1], sp[2]))

IsIntegerToken(t) == t # <<>> /\ \A i \in 1..Len(t) : t[i] \in Digits

Returned(n) == ~parsed.raised /\ parsed.val = n

\* C5 (as amended): _parse_sets returns 1 for an empty (blank) cell and the
\* integer for a hyphen-free integer cell; for a cell that contains a hyphen
\* it discards the empty tokens and returns the maximum of the remaining
\* tokens when all of them are integers ("1-2" -> 2, "2-1" -> 2, "3-" -> 3,
\* "-3" -> 3), 1 when no token remains ("-"), and raises only when the
\* hyphen-free cell, or some non-empty token, is not an integer ("abc", "1-x").
C5_SetCountRule ==
    parsed # NotCalled =>
        LET s == strip(value)
            toks == {sp \in TokenSpans(s) : Token(s, sp) # <<>>}
        IN IF s = <<>> THEN Returned(1)
           ELSE IF TokenSpans(s) = {<<1, Len(s)>>}
           THEN IF IsIntegerToken(s) THEN Returned(DecimalValue(s)) ELSE parsed.raised
           ELSE IF \E sp \in toks : ~IsIntegerToken(Token(s, sp)) THEN parsed.raised
           ELSE IF toks = {} THEN Returned(1)
           ELSE /\ ~parsed.raised
                /\ \E sp \in toks : parsed.val = DecimalValue(Token(s, sp))
                /\ \A sp \in toks : parsed.val >= DecimalValue(Token(s, sp))

\* C5 witness: a descending range was parsed and gave its maximum, not its
\* first token.
C5_Witness == value = <<"2", Hyphen, "1">> /\ Returned(2)

\* C5 (as claimed): every cell that is not empty, not one integer token and
\* not a range of two or more integer tokens is a fatal parse error.
C5_AsClaimed ==
    parsed # NotCalled =>
        LET s == strip(value)
            spans == TokenSpans(s)
        IN IF s = <<>> THEN Returned(1)
           ELSE IF spans = {<<1, Len(s)>>} /\ IsIntegerToken(s)
           THEN Returned(DecimalValue(s))
           ELSE IF Cardinality(spans) >= 2 /\ \A sp \in spans : IsIntegerToken(Token(s, sp))
           THEN /\ ~parsed.raised
                /\ \E sp \in spans : parsed.val = DecimalValue(Token(s, sp))
                /\ \A sp \in spans : parsed.val >= DecimalValue(Token(s, sp))
           ELSE parsed.raised

(***************************************************************************)
(* Properties of the importer, stated on the history of finished calls.    *)
(***************************************************************************)
Run(i) == runs[i]
RunIds == 1..Len(runs)

\* the plan's items as the storage holds them
ItemsOf(st, plan) == {it \in st.items : it.plan = plan}

\* a cell that is non-empty and that the importer's parser rejects
UnparsableSets(row) ==
    Cell(row, "Sets") # <<>> /\ _parse_sets(Cell(row, "Sets")).raised
UnparsableRest(row) ==
    Cell(row, "Rest_Seconds") # <<>> /\ PyInt(Cell(row, "Rest_Seconds")).raised

RolledBackItems(r) ==
    r.raised /\ ItemsOf(r.after, r.plan) = ItemsOf(r.before, r.plan)

\* C1 (as amended): for every plan holding M items and every file whose
\* header is valid and in which some row with a non-blank Exercise has a
\* non-empty unparsable Sets or Rest_Seconds value, the import fails and the
\* plan's items afterwards are exactly the M original items, although the
\* import had deleted them and inserted items for the earlier rows.  (A row
\* with a blank Exercise is skipped before its cells are parsed.)
C1_AtomicRollback ==
    \A i \in RunIds :
        (/\ Required \subseteq Run(i).file.header
         /\ \E k \in 1..Len(Run(i).file.rows) :
               LET row == Run(i).file.rows[k]
               IN Cell(row, "Exercise") # <<>> /\ (UnparsableSets(row) \/ UnparsableRest(row)))
        => RolledBackItems(Run(i))

\* C1 witness: an import failed on its third row after it had deleted the
\* plan's two items and inserted two new ones, and the two originals are back.
C1_Witness ==
    \E i \in RunIds :
        /\ Run(i).raised /\ Run(i).row = 3
        /\ UnparsableSets(Run(i).file.rows[3])
        /\ Cardinality(ItemsOf(Run(i).before, Run(i).plan)) = 2
        /\ Cardinality(ItemsOf(Run(i).work, Run(i).plan)) = 2
        /\ ItemsOf(Run(i).work, Run(i).plan) \cap ItemsOf(Run(i).before, Run(i).plan) = {}
        /\ ItemsOf(Run(i).after, Run(i).plan) = ItemsOf(Run(i).before, Run(i).plan)

\* C1 (as claimed): any row with a non-empty unparsable Sets or Rest_Seconds
\* value, whatever its Exercise cell, makes the import fail and leaves the
\* plan's items as they were.
C1_AsClaimed ==
    \A i \in RunIds :
        (/\ Required \subseteq Run(i).file.header
         /\ \E k \in 1..Len(Run(i).file.rows) :
               LET row == Run(i).file.rows[k]
               IN UnparsableSets(row) \/ UnparsableRest(row))
        => RolledBackItems(Run(i))

Alphabetical == <<"Exercise", "Reps_or_Time", "Rest_Seconds", "Sets", "YouTube_URL">>

\* C2: a file whose header lacks a required column is refused with an error
\* that names every missing column, in alphabetical order, and the refusal
\* comes before the delete: neither the working copy of the tables nor the
\* committed tables change (no PlanItem and no Exercise is created, changed
\* or deleted).
C2_MissingColumns ==
    \A i \in RunIds :
        ~(Required \subseteq Run(i).file.header) =>
            LET missing == SelectSeq(Alphabetical, LAMBDA c : c \notin Run(i).file.header)
                named == SubSeq(Run(i).error, 3, Len(Run(i).error))
            IN /\ Run(i).raised
               /\ Run(i).error[1] = "ValueError"
               /\ Len(named) = 2 * Len(missing) - 1
               /\ \A k \in 1..Len(missing) : named[2 * k - 1] = missing[k]
               /\ \A k \in 1..(Len(missing) - 1) : named[2 * k] = ", "
               /\ Run(i).work = Run(i).before
               /\ Run(i).after = Run(i).before

\* C2 witness: a file without the Sets and Exercise columns was refused for a
\* plan that holds items.
C2_Witness ==
    \E i \in RunIds :
        /\ Run(i).file.header = Required \ {"Sets", "Exercise"}
        /\ Run(i).file.rows # <<>>
        /\ Run(i).raised
        /\ ItemsOf(Run(i).before, Run(i).plan) # {}

\* C9: when an import fails, the Exercise catalog is what it was before the
\* import started, whatever exercises the earlier rows created or updated.
C9_CatalogRollback ==
    \A i \in RunIds :
        Run(i).raised => Run(i).after.exercises = Run(i).before.exercises

\* C9 witness: an import failed after earlier rows had created one exercise
\* and changed the video URL of another.
C9_Witness ==
    \E i \in RunIds :
        /\ Run(i).raised
        /\ Run(i).result.created_exercises = 1
        /\ Run(i).result.updated_exercises = 1
        /\ Run(i).work.exercises # Run(i).before.exercises
        /\ Run(i).after.exercises = Run(i).before.exercises

\* WorkoutPlanItem.Meta.ordering: the plan's items by ascending order, each
\* as (exercise, order, sets, reps, rest)
RECURSIVE ByOrder(_)
ByOrder(its) ==
    IF its = {} THEN <<>>
    ELSE LET first == CHOOSE it \in its : \A other \in its : it.order <= other.order
         IN <<[exercise |-> first.exercise, order |-> first.order,
               prescribed_sets |-> first.prescribed_sets,
               prescribed_reps |-> first.prescribed_reps,
               rest_seconds |-> first.rest_seconds]>> \o ByOrder(its \ {first})

ItemList(st, plan) == ByOrder(ItemsOf(st, plan))

\* two imports of the same file into the same plan, one right after the other
Twice(i) ==
    /\ i + 1 \in RunIds
    /\ Run(i).plan = Run(i + 1).plan
    /\ Run(i).file = Run(i + 1).file
    /\ ~Run(i).raised

\* C3: when a file that imports successfully is imported again into the same
\* plan, the second import succeeds too and leaves the same item list as the
\* first (same exercises, orders, sets, reps and rest), whatever the plan and
\* the catalog held before the first.
C3_Idempotent ==
    \A i \in RunIds :
        Twice(i) =>
            /\ ~Run(i + 1).raised
            /\ ItemList(Run(i + 1).after, Run(i).plan) = ItemList(Run(i).after, Run(i).plan)

\* C3 witness: a three-row file was imported twice into a plan whose items
\* were different before the first import.
C3_Witness ==
    \E i \in RunIds :
        /\ Twice(i)
        /\ Len(ItemList(Run(i).after, Run(i).plan)) = 3
        /\ Len(ItemList(Run(i).before, Run(i).plan)) = 2
        /\ ItemsOf(Run(i + 1).after, Run(i).plan) # ItemsOf(Run(i).after, Run(i).plan)

\* the trimmed non-empty video URLs the file gives for an exercise name
UrlsFor(file, name) ==
    {Cell(file.rows[k], "YouTube_URL") :
        k \in {j \in 1..Len(file.rows) : Cell(file.rows[j], "Exercise") = name}} \ {<<>>}

NamesIn(file) ==
    {Cell(file.rows[k], "Exercise") : k \in 1..Len(file.rows)} \ {<<>>}

ConflictingUrls(file) ==
    \E name \in NamesIn(file) : Cardinality(UrlsFor(file, name)) > 1

\* C4 (as amended): when the same valid file is imported twice in succession
\* into the same plan, the second import reports created_exercises = 0, and
\* it reports updated_exercises = 0 exactly when no exercise name appears in
\* the file with two different non-empty URLs (a name listed with two URLs is
\* updated again on every import).
C4_SecondRunCounters ==
    \A i \in RunIds :
        Twice(i) =>
            /\ Run(i + 1).result.created_exercises = 0
            /\ (Run(i + 1).result.updated_exercises = 0) <=> ~ConflictingUrls(Run(i).file)

\* C4 witness: the first import created and updated exercises from a file
\* that lists one name on two rows, and the second reported 0 and 0.
C4_Witness ==
    \E i \in RunIds :
        /\ Twice(i)
        /\ \E name \in NamesIn(Run(i).file) :
              Cardinality({k \in 1..Len(Run(i).file.rows) :
                              Cell(Run(i).file.rows[k], "Exercise") = name}) >= 2
        /\ Run(i).result.created_exercises > 0
        /\ Run(i).result.updated_exercises > 0
        /\ Run(i + 1).result = ImportResult(0, 0, Len(Run(i).file.rows))

\* C4 (as claimed): the second of two successive imports of the same valid
\* file reports 0 created and 0 updated exercises, for every valid file.
C4_AsClaimed ==
    \A i \in RunIds :
        Twice(i) =>
            /\ Run(i + 1).result.created_exercises = 0
            /\ Run(i + 1).result.updated_exercises = 0

\* the rows whose trimmed Exercise cell is not empty, in file order
Accepted(file) == SelectSeq(file.rows, LAMBDA row : Cell(row, "Exercise") # <<>>)

ExerciseName(st, id) == (CHOOSE e \in st.exercises : e.id = id).name

\* C6: after a successful import of a file with k non-blank rows the plan
\* holds exactly k items, with orders 1..k, the item of order i built from the
\* i-th non-blank row, and created_items = k; blank rows take no order number
\* and raise nothing, whatever their other cells hold.
C6_OrderAndBlankRows ==
    \A i \in RunIds :
        ~Run(i).raised =>
            LET rows == Accepted(Run(i).file)
                list == ItemList(Run(i).after, Run(i).plan)
            IN /\ Cardinality(ItemsOf(Run(i).after, Run(i).plan)) = Len(rows)
               /\ Len(list) = Len(rows)
               /\ Run(i).result.created_items = Len(rows)
               /\ \A k \in 1..Len(rows) :
                     /\ list[k].order = k
                     /\ ExerciseName(Run(i).after, list[k].exercise) = Cell(rows[k], "Exercise")
                     /\ list[k].prescribed_sets = _parse_sets(Cell(rows[k], "Sets")).val
                     /\ list[k].prescribed_reps =
                            IF Cell(rows[k], "Reps_or_Time") # <<>>
                            THEN Cell(rows[k], "Reps_or_Time") ELSE <<"1", "0">>
                     /\ list[k].rest_seconds =
                            IF Cell(rows[k], "Rest_Seconds") # <<>>
                            THEN PyInt(Cell(rows[k], "Rest_Seconds")).val ELSE 0

\* C6 witness: a file [A, blank row with unparsable cells, B] was imported
\* and gave A order 1 and B order 2.
C6_Witness ==
    \E i \in RunIds :
        /\ ~Run(i).raised
        /\ Len(Run(i).file.rows) = 3
        /\ Run(i).file.rows[2] \in BlankRows
        /\ LET list == ItemList(Run(i).after, Run(i).plan)
           IN /\ Len(list) = 2
              /\ ExerciseName(Run(i).after, list[1].exercise) = <<"A">>
              /\ ExerciseName(Run(i).after, list[2].exercise) = <<"B">>
              /\ list[2].order = 2
              /\ list[1].prescribed_sets = 2

\* the catalog and the counters as the loop found them at its k-th row
CatalogBefore(r, k) == IF k = 1 THEN r.before.exercises ELSE r.log[k - 1].st.exercises
CountersBefore(r, k) == IF k = 1 THEN ImportResult(0, 0, 0) ELSE r.log[k - 1].result

SameExerciseCounters(a, b) ==
    /\ a.created_exercises = b.created_exercises
    /\ a.updated_exercises = b.updated_exercises

\* the row reached the upsert: its name is not blank and its cells parsed
Upserted(row) ==
    Cell(row, "Exercise") # <<>> /\ ~UnparsableSets(row) /\ ~UnparsableRest(row)

\* C7: for a row whose trimmed name is in the catalog, the stored video URL
\* is replaced and updated_exercises incremented if and only if the row's
\* trimmed YouTube_URL is non-empty and differs from the stored one (an empty
\* incoming URL changes nothing and counts nothing); for a name not in the
\* catalog the exercise is created with the row's URL, possibly empty, and
\* created_exercises is incremented.
C7_Upsert ==
    \A i \in RunIds : \A k \in 1..Len(Run(i).log) :
        LET row == Run(i).file.rows[k]
            name == Cell(row, "Exercise")
            url == Cell(row, "YouTube_URL")
            pre == CatalogBefore(Run(i), k)
            cnt == CountersBefore(Run(i), k)
            post == Run(i).log[k].st.exercises
            res == Run(i).log[k].result
            stored == {e \in pre : e.name = name}
        IN IF ~Upserted(row)
           THEN post = pre /\ SameExerciseCounters(res, cnt)
           ELSE IF stored = {}
           THEN /\ \E e \in post \ pre :
                      e.name = name /\ e.youtube_url = url /\ post = pre \cup {e}
                /\ res.created_exercises = cnt.created_exercises + 1
                /\ res.updated_exercises = cnt.updated_exercises
           ELSE \A e \in stored :
                   IF url # <<>> /\ url # e.youtube_url
                   THEN /\ post = (pre \ {e}) \cup {[e EXCEPT !.youtube_url = url]}
                        /\ res.updated_exercises = cnt.updated_exercises + 1
                        /\ res.created_exercises = cnt.created_exercises
                   ELSE post = pre /\ SameExerciseCounters(res, cnt)

\* C7 witness: an import met a known exercise first with an empty URL, which
\* left the stored URL and the counters alone, then with a different URL,
\* which replaced it, and then created an unknown exercise with an empty URL.
C7_Witness ==
    \E i \in RunIds :
        /\ Len(Run(i).log) = 3
        /\ Run(i).before.exercises = {[id |-> 1, name |-> <<"A">>, youtube_url |-> <<"u">>]}
        /\ Cell(Run(i).file.rows[1], "YouTube_URL") = <<>>
        /\ Run(i).log[1].st.exercises = Run(i).before.exercises
        /\ Run(i).log[1].result = ImportResult(0, 0, 1)
        /\ Run(i).log[2].st.exercises = {[id |-> 1, name |-> <<"A">>, youtube_url |-> <<"v">>]}
        /\ Run(i).log[2].result = ImportResult(0, 1, 2)
        /\ Run(i).log[3].result = ImportResult(1, 1, 3)
        /\ [id |-> 2, name |-> <<"B">>, youtube_url |-> <<>>] \in Run(i).after.exercises

\* C8 (as claimed): every PlanItem stored by a successful import has a
\* prescribed set count >= 1 and a rest duration >= 0.
C8_AsClaimed ==
    \A i \in RunIds :
        ~Run(i).raised =>
            \A it \in ItemsOf(Run(i).after, Run(i).plan) :
                it.prescribed_sets >= 1 /\ it.rest_seconds >= 0

(***************************************************************************)
(* Properties of concurrent imports.                                       *)
(***************************************************************************)
AllDone == \A t \in Importers : txn[t].pc = "done"

\* both imports target the same plan
SamePlan == \A t \in Importers : txn[t].plan = TargetPlan

\* the item list a file describes: one item per non-blank row, in file order
BuiltFrom(file) ==
    [k \in 1..Len(Accepted(file)) |->
        LET row == Accepted(file)[k]
        IN [name |-> Cell(row, "Exercise"), order |-> k,
            prescribed_sets |-> _parse_sets(Cell(row, "Sets")).val,
            prescribed_reps |-> IF Cell(row, "Reps_or_Time") # <<>>
                                THEN Cell(row, "Reps_or_Time") ELSE <<"1", "0">>,
            rest_seconds |-> IF Cell(row, "Rest_Seconds") # <<>>
                             THEN PyInt(Cell(row, "Rest_Seconds")).val ELSE 0]]

\* the committed item list of the target plan, exercises by name
CommittedList ==
    LET list == ItemList(Tables, TargetPlan)
    IN [k \in 1..Len(list) |->
          [name |-> ExerciseName(Tables, list[k].exercise), order |-> list[k].order,
           prescribed_sets |-> list[k].prescribed_sets,
           prescribed_reps |-> list[k].prescribed_reps,
           rest_seconds |-> list[k].rest_seconds]]

UniquePlanOrder ==
    \A a \in items : \A b \in items :
        (a.plan = b.plan /\ a.order = b.order) => a = b

\* a file the importer accepts when it runs alone
Importable(file) ==
    /\ Required \subseteq file.header
    /\ \A k \in 1..Len(Accepted(file)) :
          ~UnparsableSets(Accepted(file)[k]) /\ ~UnparsableRest(Accepted(file)[k])

Committers == {commits[k] : k \in 1..Len(commits)}

NamesUnique(rows) == \A a \in rows : \A b \in rows : a.name = b.name => a = b

\* C11: in every state of every interleaving of two imports, the catalog
\* holds at most one Exercise per name, and so does what each import reads;
\* an import whose insert of a name was refused by the unique index has
\* inserted no record of that name, finds the name in the catalog, and goes
\* on with the committed record of that name as the row's exercise.
C11_NameRace ==
    /\ NamesUnique(exercises)
    /\ \A t \in Importers :
          /\ NamesUnique(VisibleExercises(t))
          /\ \A name \in txn[t].lost :
                /\ \E e \in exercises : e.name = name
                /\ \A w \in txn[t].written : w.name = name => w.id \in Ids(exercises)
                /\ (txn[t].pc \in {"update", "create_item"}
                      /\ Cell(CurrentRow(t), "Exercise") = name)
                    => \E e \in exercises : e.name = name /\ e.id = txn[t].exercise.id

\* C11 witness: both imports referenced the new name A, one of them lost the
\* creation race, both committed, and the catalog holds A once.
C11_Witness ==
    /\ AllDone
    /\ Len(commits) = 2
    /\ \E t \in Importers : txn[t].lost = {<<"A">>} /\ txn[t].result.created_exercises = 0
    /\ \E t \in Importers : txn[t].lost = {} /\ txn[t].result.created_exercises >= 1
    /\ Cardinality({e \in exercises : e.name = <<"A">>}) = 1

(***************************************************************************)
(* Properties of the counters, row by row.                                 *)
(***************************************************************************)
\* the rows of run r whose iteration ended without an exception and with an
\* exercise resolved: the accepted rows
AcceptedAt(r, k) ==
    Cell(r.file.rows[k], "Exercise") # <<>> /\ ~r.log[k].raised

\* C12: each row's iteration increments at most one of created_exercises
\* and updated_exercises, by one, and an accepted row increments
\* created_items by one (a row that is skipped increments nothing); so every
\* returned summary has its three counts >= 0 and created_exercises +
\* updated_exercises <= created_items.
C12_CounterExclusivity ==
    \A i \in RunIds :
        /\ \A k \in 1..Len(Run(i).log) :
              LET cnt == CountersBefore(Run(i), k)
                  res == Run(i).log[k].result
                  dc == res.created_exercises - cnt.created_exercises
                  du == res.updated_exercises - cnt.updated_exercises
                  di == res.created_items - cnt.created_items
              IN /\ dc \in {0, 1} /\ du \in {0, 1} /\ dc + du <= 1
                 /\ di = IF AcceptedAt(Run(i), k) THEN 1 ELSE 0
                 /\ ~AcceptedAt(Run(i), k) /\ ~Run(i).log[k].raised => dc = 0 /\ du = 0
        /\ ~Run(i).raised =>
              /\ Run(i).result.created_exercises >= 0
              /\ Run(i).result.updated_exercises >= 0
              /\ Run(i).result.created_items >= 0
              /\ Run(i).result.created_exercises + Run(i).result.updated_exercises
                    <= Run(i).result.created_items

\* C12 witness: an import returned a summary in which every row counted
\* once: one row created an exercise with a URL, one updated a URL, and the
\* file had a blank row that counted nothing.
C12_Witness ==
    \E i \in RunIds :
        /\ ~Run(i).raised
        /\ Len(Run(i).file.rows) = 3
        /\ \E k \in 1..3 : Run(i).file.rows[k] \in BlankRows
        /\ \E e \in Run(i).after.exercises \ Run(i).before.exercises :
              e.youtube_url # <<>> /\ e.id \notin Ids(Run(i).before.exercises)
        /\ Run(i).result = ImportResult(1, 1, 2)

(***************************************************************************)
(* Properties of an import whose plan has no row.                          *)
(***************************************************************************)
SameCatalogAndItems(a, b) == a.exercises = b.exercises /\ a.items = b.items

\* C13 (as claimed): an import whose plan does not resolve to a WorkoutPlan
\* row fails, for every file, and fails before it has changed the catalog or
\* the items, even inside its transaction.
C13_AsClaimed ==
    \A i \in RunIds :
        Run(i).plan \notin Run(i).before.plans =>
            /\ Run(i).raised
            /\ SameCatalogAndItems(Run(i).work, Run(i).before)

(***************************************************************************)
(* The frame of an import.                                                 *)
(***************************************************************************)
OtherItems(st, plan) == {it \in st.items : it.plan # plan}

\* C14: an import targeting plan P, whether it returns or raises, leaves the
\* WorkoutPlan rows as they were and leaves every item of every other plan
\* as it was (same row, same id, same fields), both in the committed tables
\* and in the transaction's working copy at its end.
C14_Frame ==
    \A i \in RunIds :
        /\ Run(i).after.plans = Run(i).before.plans
        /\ Run(i).work.plans = Run(i).before.plans
        /\ OtherItems(Run(i).after, Run(i).plan) = OtherItems(Run(i).before, Run(i).plan)
        /\ OtherItems(Run(i).work, Run(i).plan) = OtherItems(Run(i).before, Run(i).plan)

\* C14 witness: a three-row file was imported into a plan of two items and
\* then into another plan of one item; the second import replaced that one
\* item and left the three items the first import had stored.
C14_Witness ==
    \E i \in RunIds :
        /\ i + 1 \in RunIds
        /\ Run(i).plan # Run(i + 1).plan
        /\ ~Run(i).raised /\ ~Run(i + 1).raised
        /\ Cardinality(ItemsOf(Run(i).before, Run(i).plan)) = 2
        /\ Cardinality(ItemsOf(Run(i).after, Run(i).plan)) = 3
        /\ Cardinality(ItemsOf(Run(i + 1).before, Run(i + 1).plan)) = 1
        /\ Cardinality(ItemsOf(Run(i + 1).after, Run(i + 1).plan)) = 3
        /\ OtherItems(Run(i + 1).after, Run(i + 1).plan) = ItemsOf(Run(i).after, Run(i).plan)

(***************************************************************************)
(* What a parse error carries.  The exception is the ValueError of int():  *)
(* its type, the fixed text of its message and the literal int() refused,  *)
(* which are the three components of the model's error.                    *)
(***************************************************************************)
\* the import was aborted by the parse of a Sets or Rest_Seconds cell
ParseFailed(r) ==
    /\ r.raised
    /\ Required \subseteq r.file.header
    /\ r.row \in 1..Len(r.file.rows)
    /\ Cell(r.file.rows[r.row], "Exercise") # <<>>
    /\ UnparsableSets(r.file.rows[r.row]) \/ UnparsableRest(r.file.rows[r.row])

\* Sets is parsed before Rest_Seconds
OffendingField(r) ==
    IF UnparsableSets(r.file.rows[r.row]) THEN "Sets" ELSE "Rest_Seconds"

\* str(n) for a natural number
RECURSIVE Decimal(_)
Decimal(n) ==
    IF n < 10 THEN <<CHOOSE c \in Digits : DigitVal(c) = n>>
    ELSE Decimal(n \div 10) \o Decimal(n % 10)

\* C15 (as claimed): the error that aborts an import on an unparsable Sets or
\* Rest_Seconds cell carries the name of the offending field (as its type or
\* its text) and the position of the offending row (as the one component
\* that varies from error to error).
C15_AsClaimed ==
    \A i \in RunIds :
        ParseFailed(Run(i)) =>
            /\ \E j \in {1, 2} : Run(i).error[j] = OffendingField(Run(i))
            /\ Run(i).error[3] = Decimal(Run(i).row)

(***************************************************************************)
(* The fields of the item each accepted row stores.                        *)
(***************************************************************************)
ItemsBefore(r, k) == IF k = 1 THEN delete_items(r.before, r.plan).items ELSE r.log[k - 1].st.items

\* C16: in every import, each accepted row stores exactly one item, whose
\* rest_seconds is 0 when the trimmed Rest_Seconds cell is empty and the
\* integer the cell denotes otherwise, and whose prescribed_reps is the
\* trimmed Reps_or_Time cell when that is non-empty and "10" otherwise; a row
\* with a non-blank Exercise, a parsable Sets and a Rest_Seconds that is not
\* an integer stores nothing and aborts the import.
C16_FieldDefaults ==
    \A i \in RunIds : \A k \in 1..Len(Run(i).log) :
        LET row == Run(i).file.rows[k]
            rest == strip(row["Rest_Seconds"])
            reps == strip(row["Reps_or_Time"])
            digits == rest # <<>> /\ \A j \in 1..Len(rest) : rest[j] \in Digits
            stored == Run(i).log[k].st.items \ ItemsBefore(Run(i), k)
        IN /\ AcceptedAt(Run(i), k) =>
                /\ Cardinality(stored) = 1
                /\ \A it \in stored :
                      /\ it.plan = Run(i).plan
                      /\ rest = <<>> => it.rest_seconds = 0
                      /\ rest # <<>> => digits /\ it.rest_seconds = DecimalValue(rest)
                      /\ reps # <<>> => it.prescribed_reps = reps
                      /\ reps = <<>> => it.prescribed_reps = <<"1", "0">>
           /\ (/\ strip(row["Exercise"]) # <<>>
               /\ ~UnparsableSets(row)
               /\ rest # <<>>
               /\ ~digits /\ ~(Head(rest) = Hyphen /\ Len(rest) > 1
                                /\ \A j \in 2..Len(rest) : rest[j] \in Digits))
              => /\ Run(i).log[k].raised
                 /\ Run(i).raised
                 /\ stored = {}

\* C16 witness: an import stored an item with rest 90 and reps "8" from the
\* cells "90" and "8 ", and an item with rest 0 and reps "10" from empty
\* cells.
C16_Witness ==
    \E i \in RunIds :
        /\ ~Run(i).raised
        /\ \E it \in ItemsOf(Run(i).after, Run(i).plan) :
              /\ it.rest_seconds = 90 /\ it.prescribed_reps = <<"8">>
              /\ Run(i).file.rows[it.order]["Rest_Seconds"] = <<"9", "0">>
              /\ Run(i).file.rows[it.order]["Reps_or_Time"] = <<"8", " ">>
        /\ \E it \in ItemsOf(Run(i).after, Run(i).plan) :
              /\ it.rest_seconds = 0 /\ it.prescribed_reps = <<"1", "0">>
              /\ Run(i).file.rows[it.order]["Rest_Seconds"] = <<>>
              /\ Run(i).file.rows[it.order]["Reps_or_Time"] = <<>>

(***************************************************************************)
(* Properties of the workout log, stated on the history of POSTs.          *)
(***************************************************************************)
Post(j) == posts[j]
PostIds == 1..Len(posts)

LogsOf(db, user, plan) == {l \in db.logs : l.user = user /\ l.plan = plan}
SetLogsOf(db, user, plan) ==
    {s \in db.setlogs : \E l \in LogsOf(db, user, plan) : s.log = l.id}

\* C17 (as claimed): a POST with a reps value that is not an integer saves
\* nothing: afterwards no SetLog is stored that was not stored before, the
\* user's SetLogs for the plan are the ones stored before, and, where the
\* user had a log for the plan, its general comment is what it was.
C17_AsClaimed ==
    \A j \in PostIds :
        Post(j).outcome = "invalid" =>
            /\ Post(j).after.setlogs \subseteq Post(j).before.setlogs
            /\ SetLogsOf(Post(j).after, Post(j).user, Post(j).plan)
                  = SetLogsOf(Post(j).before, Post(j).user, Post(j).plan)
            /\ LogsOf(Post(j).before, Post(j).user, Post(j).plan) # {}
                  => LogsOf(Post(j).after, Post(j).user, Post(j).plan)
                       = LogsOf(Post(j).before, Post(j).user, Post(j).plan)

\* the entries of a form that the plan's page asked for and that have a
\* non-empty reps value, as the SetLog fields they denote
Entered(post) ==
    LET its == {it \in post.before.items : it.plan = post.plan}
        keys == UNION {{<<it.id, n>> : n \in 1..it.prescribed_sets} : it \in its}
        filled == {k \in keys : k \in DOMAIN post.form.entries
                                  /\ strip(post.form.entries[k].reps) # <<>>}
    IN {[plan_item |-> k[1], set_number |-> k[2],
         reps_done |-> DecimalValue(strip(post.form.entries[k].reps)),
         comment |-> strip(post.form.entries[k].comment)] : k \in filled}

PostsOf(user, plan) == {j \in PostIds : Post(j).user = user /\ Post(j).plan = plan}
Latest(user, plan) == CHOOSE j \in PostsOf(user, plan) : \A k \in PostsOf(user, plan) : k <= j

\* C18: whenever the latest POST of a user for a plan was saved, whatever
\* POSTs and imports came before and after it, there is exactly one
\* WorkoutLog for that (user, plan), it carries the trimmed general comment
\* of that POST, and its SetLogs are exactly the entries of that POST with a
\* non-empty reps value: one row per (plan item, set number), each for an
\* item of that plan and with 1 <= set_number <= the item's prescribed_sets,
\* with the integer and the trimmed comment that were entered.
C18_ReplaceOnSubmit ==
    \A user \in Users : \A plan \in Plans :
        (PostsOf(user, plan) # {} /\ Post(Latest(user, plan)).outcome = "saved") =>
            LET post == Post(Latest(user, plan))
                rows == SetLogsOf(ViewTables, user, plan)
            IN /\ Cardinality(LogsOf(ViewTables, user, plan)) = 1
               /\ \A l \in LogsOf(ViewTables, user, plan) :
                     l.general_comment = strip(post.form.general_comment)
               /\ {[plan_item |-> s.plan_item, set_number |-> s.set_number,
                     reps_done |-> s.reps_done, comment |-> s.comment] : s \in rows}
                    = Entered(post)
               /\ Cardinality(rows) = Cardinality(Entered(post))
               /\ \A s \in rows :
                     \E it \in post.before.items :
                        /\ it.id = s.plan_item /\ it.plan = plan
                        /\ 1 <= s.set_number /\ s.set_number <= it.prescribed_sets

\* C18 witness: a user saved two sets for a plan and then saved the form
\* again with only the second set filled in; the log holds that one set.
C18_Witness ==
    \E user \in Users : \E plan \in Plans :
        /\ PostsOf(user, plan) = {1, 2}
        /\ Post(1).outcome = "saved" /\ Post(2).outcome = "saved"
        /\ Cardinality(SetLogsOf(Post(1).after, user, plan)) = 2
        /\ Cardinality(LogsOf(ViewTables, user, plan)) = 1
        /\ \E s \in setlogs :
              /\ SetLogsOf(ViewTables, user, plan) = {s}
              /\ s.set_number = 2 /\ s.reps_done = 7 /\ s.comment = <<"c">>
              /\ s \notin Post(1).after.setlogs

(***************************************************************************)
(* Properties of imports into plans that have logs.                        *)
(***************************************************************************)
NoOrphan ==
    \A s \in setlogs :
        /\ \E it \in items : it.id = s.plan_item
        /\ \E l \in logs : l.id = s.log

Untouched(a, b) ==
    /\ a.items = b.items
    /\ a.exercises = b.exercises
    /\ a.logs = b.logs
    /\ a.setlogs = b.setlogs

\* C19 (as amended): in every state reachable by imports and POSTs, every
\* SetLog references a stored WorkoutPlanItem (and a stored WorkoutLog); an
\* import into a plan one of whose items has a SetLog raises and leaves
\* the items of every plan, the WorkoutLogs, the SetLogs and the catalog
\* unchanged, in the committed tables and in the transaction's working copy;
\* it is the delete step that refuses it (ProtectedError) when the file's
\* header has every required column, and the header check, before the
\* delete step is reached, when it has not.
C19_ProtectedLogs ==
    /\ NoOrphan
    /\ \A i \in RunIds :
          protected(Run(i).before, Run(i).plan) =>
              /\ Run(i).raised
              /\ Untouched(Run(i).after, Run(i).before)
              /\ Untouched(Run(i).work, Run(i).before)
              /\ Run(i).log = <<>>
              /\ Run(i).error[1] =
                    IF Required \subseteq Run(i).file.header
                    THEN "ProtectedError" ELSE "ValueError"

\* C19 witness: a user saved two sets for a plan, and an import of a file
\* with a valid header into that plan was then refused by the delete step.
C19_Witness ==
    \E i \in RunIds :
        /\ Required \subseteq Run(i).file.header
        /\ Run(i).file.rows # <<>>
        /\ Run(i).raised
        /\ Run(i).error[1] = "ProtectedError"
        /\ Cardinality({s \in Run(i).before.setlogs :
                            \E it \in ItemsOf(Run(i).before, Run(i).plan) :
                                s.plan_item = it.id}) = 2
        /\ ItemsOf(Tables, Run(i).plan) = ItemsOf(Run(i).before, Run(i).plan)

\* C19 (as claimed): every SetLog references a stored WorkoutPlanItem, and
\* every import into a plan one of whose items has a SetLog is refused at
\* the delete step and leaves items, logs and catalog unchanged.
C19_AsClaimed ==
    /\ NoOrphan
    /\ \A i \in RunIds :
          protected(Run(i).before, Run(i).plan) =>
              /\ Run(i).raised
              /\ Run(i).error[1] = "ProtectedError"
              /\ Untouched(Run(i).after, Run(i).before)

====
